---- MODULE Spec2Model ----
(***************************************************************************)
(* Relational Memory Core (src/relational_rnn_general.py).                 *)
(*                                                                         *)
(* A RelationalMemory object is its configuration record `self`.  A call   *)
(* of one of its methods is one action.  The tensor computation a call     *)
(* performs is recorded as a tape: the sequence of tensor operations the   *)
(* call executed, each node carrying the operation, the nodes it read, the *)
(* shape of its result, the storage the result lives in (`base`: a view    *)
(* shares the base of the tensor it views, every other operation           *)
(* allocates) and the parameter (layer, bias, scalar) it used.  A tensor   *)
(* is the index of its node.  An operation whose shape contract is broken  *)
(* stops the call with the exception the code or the tensor library        *)
(* raises.                                                                 *)
(***************************************************************************)
EXTENDS Integers, Sequences, FiniteSets, TLC

VARIABLES self, call, tape, ret

vars == <<self, call, tape, ret>>

(***************************************************************************)
(* Bounds of the model.                                                    *)
(***************************************************************************)
MaxSlots == 2
MaxHeadSize == 2
MaxHeads == 2
MaxBlocks == 2
MaxLayers == 2
MaxBatch == 2
MaxSeqLen == 2
MaxRows == 2

(***************************************************************************)
(* Arithmetic helpers.                                                     *)
(***************************************************************************)
RECURSIVE Prod(_)
Prod(s) == IF s = <<>> THEN 1 ELSE Head(s) * Prod(Tail(s))

RECURSIVE Sum(_)
Sum(s) == IF s = <<>> THEN 0 ELSE Head(s) + Sum(Tail(s))

Max(a, b) == IF a >= b THEN a ELSE b

Min(a, b) == IF a <= b THEN a ELSE b

Front(s) == SubSeq(s, 1, Len(s) - 1)

Last(s) == s[Len(s)]

(***************************************************************************)
(* RelationalMemory.__init__                                               *)
(***************************************************************************)
NoObject == [constructed |-> FALSE]

\* Python's None for gate_style is the string "None"; None for key_size is 0
\* (both are falsy in `key_size if key_size else self.head_size`).
GateStyles == {"unit", "memory", "None"}

\* faulty variant: the block count is checked against 0
num_blocks_bad_off_by_one(num_blocks) == num_blocks < 0

num_blocks_bad(num_blocks) == num_blocks < 1

gate_style_bad(gate_style) == gate_style \notin GateStyles

attention_mlp_layers_bad(attention_mlp_layers) == attention_mlp_layers < 1

calculate_gate_size(gate_style, mem_size) ==
    IF gate_style = "unit" THEN mem_size
    ELSE IF gate_style = "memory" THEN 1
    ELSE 0

\* faulty variant: room for two appended rows
mem_slots_plus_two(mem_slots) == mem_slots + 2

mem_slots_plus_input(mem_slots) == mem_slots + 1

Linear_(name, in_features, out_features) ==
    [name |-> name, in_features |-> in_features, out_features |-> out_features]

LayerNorm_(name, normalized_shape) ==
    [name |-> name, normalized_shape |-> normalized_shape]

\* [nn.Linear(mem_size, mem_size)] * attention_mlp_layers: one layer instance,
\* referenced attention_mlp_layers times.
attention_mlp_list(mem_size, attention_mlp_layers) ==
    [i \in 1..attention_mlp_layers |-> Linear_("attention_mlp.0", mem_size, mem_size)]

init_fields(a) ==
    LET mem_size == a.head_size * a.num_heads
        key_size == IF a.key_size # 0 THEN a.key_size ELSE a.head_size
        value_size == a.head_size
        qkv_size == 2 * key_size + value_size
        total_qkv_size == qkv_size * a.num_heads
        plus == mem_slots_plus_input(a.mem_slots)
        num_gates == 2 * calculate_gate_size(a.gate_style, mem_size)
    IN  [constructed |-> TRUE,
         mem_slots |-> a.mem_slots,
         head_size |-> a.head_size,
         num_heads |-> a.num_heads,
         mem_size |-> mem_size,
         mem_slots_plus_input |-> plus,
         num_blocks |-> a.num_blocks,
         gate_style |-> a.gate_style,
         attention_mlp_layers |-> a.attention_mlp_layers,
         key_size |-> key_size,
         value_size |-> value_size,
         qkv_size |-> qkv_size,
         total_qkv_size |-> total_qkv_size,
         qkv_projector |-> Linear_("qkv_projector", mem_size, total_qkv_size),
         qkv_layernorm |-> LayerNorm_("qkv_layernorm", <<plus, total_qkv_size>>),
         attention_mlp |-> attention_mlp_list(mem_size, a.attention_mlp_layers),
         attended_memory_layernorm |->
             LayerNorm_("attended_memory_layernorm", <<plus, mem_size>>),
         attended_memory_layernorm2 |->
             LayerNorm_("attended_memory_layernorm2", <<plus, mem_size>>),
         input_size |-> a.input_size,
         input_projector |-> Linear_("input_projector", a.input_size, mem_size),
         num_gates |-> num_gates,
         input_gate_projector |-> Linear_("input_gate_projector", mem_size, num_gates),
         memory_gate_projector |-> Linear_("memory_gate_projector", mem_size, num_gates),
         return_all_outputs |-> a.return_all_outputs]

\* The constructor: the error it raises ("none" when it returns) and the object.
NumBlocksError == "ValueError: num_blocks must be >=1"

GateStyleError == "ValueError: gate_style must be one of ['unit', 'memory', None]"

MlpLayersError == "ValueError: attention_mlp_layers must be >= 1"

init_(a) ==
    IF num_blocks_bad(a.num_blocks) THEN [err |-> NumBlocksError, obj |-> NoObject]
    ELSE IF gate_style_bad(a.gate_style) THEN [err |-> GateStyleError, obj |-> NoObject]
    ELSE IF attention_mlp_layers_bad(a.attention_mlp_layers)
         THEN [err |-> MlpLayersError, obj |-> NoObject]
    ELSE [err |-> "none", obj |-> init_fields(a)]

(***************************************************************************)
(* RelationalMemory.initial_state, on concrete matrices: a matrix is a     *)
(* sequence of rows, a row a sequence of numbers.                          *)
(***************************************************************************)
eye(n) == [i \in 1..n |-> [j \in 1..n |-> IF i = j THEN 1 ELSE 0]]

zeros(rows, cols) == [i \in 1..rows |-> [j \in 1..cols |-> 0]]

\* torch.cat([a, b], -1) of two matrices with the same number of rows
cat_last(a, b) == [i \in 1..Len(a) |-> a[i] \o b[i]]

\* faulty variant: the truncation is skipped
take_cols_skipped(x, k) == x

\* x[:, :k] of a matrix
take_cols(x, k) == [i \in 1..Len(x) |-> SubSeq(x[i], 1, Min(k, Len(x[i])))]

initial_state(s, batch_size) ==
    LET init_state == [b \in 1..batch_size |-> eye(s.mem_slots)]
    IN  IF s.mem_size > s.mem_slots
        THEN LET difference == s.mem_size - s.mem_slots
                 pad == [b \in 1..batch_size |-> zeros(s.mem_slots, difference)]
             IN  [b \in 1..batch_size |-> cat_last(init_state[b], pad[b])]
        ELSE IF s.mem_size < s.mem_slots
        THEN [b \in 1..batch_size |-> take_cols(init_state[b], s.mem_size)]
        ELSE init_state

(***************************************************************************)
(* The tensor machine: m = [tape, err].  Every primitive appends the node  *)
(* of its result (Top(m) afterwards) or stops the call with an error; once *)
(* an error is raised nothing more is executed.                            *)
(***************************************************************************)
NoTape == [tape |-> <<>>, err |-> "none"]

Top(m) == Len(m.tape)

Ok(m) == m.err = "none"

ShapeOf(m, x) == m.tape[x].shape

BaseOf(m, x) == m.tape[x].base

Raise(m, e) == IF Ok(m) THEN [m EXCEPT !.err = e] ELSE m

Node(op, args, shape, base, par) ==
    [op |-> op, args |-> args, shape |-> shape, base |-> base, par |-> par]

\* a freshly allocated result
Alloc(m, op, args, shape, par) ==
    [m EXCEPT !.tape = Append(@, Node(op, args, shape, Len(@) + 1, par))]

\* a view of x: shares x's storage
ViewOf(m, op, x, shape, par) ==
    [m EXCEPT !.tape = Append(@, Node(op, <<x>>, shape, BaseOf(m, x), par))]

\* an in-place update of x: the new contents of x's tensor, in x's storage
InPlace(m, op, x, others, par) ==
    [m EXCEPT !.tape = Append(@, Node(op, <<x>> \o others, ShapeOf(m, x), BaseOf(m, x), par))]

InPlaceOps == {"mul_", "add_"}

\* a tensor the caller passes in
Given(m, name, shape) == Alloc(m, "given", <<>>, shape, name)

ReplaceLast(shape, d) == Front(shape) \o <<d>>

\* nn.Linear: the last axis must have in_features entries
Linear(m, layer, x) ==
    IF ~Ok(m) THEN m
    ELSE IF Len(ShapeOf(m, x)) = 0 \/ Last(ShapeOf(m, x)) # layer.in_features
         THEN Raise(m, "RuntimeError")
    ELSE Alloc(m, "linear", <<x>>, ReplaceLast(ShapeOf(m, x), layer.out_features), layer.name)

\* nn.LayerNorm: the trailing axes must equal normalized_shape
LayerNorm(m, ln, x) ==
    LET sh == ShapeOf(m, x)
        k == Len(ln.normalized_shape)
    IN  IF ~Ok(m) THEN m
        ELSE IF Len(sh) < k \/ SubSeq(sh, Len(sh) - k + 1, Len(sh)) # ln.normalized_shape
             THEN Raise(m, "RuntimeError")
        ELSE Alloc(m, "layer_norm", <<x>>, sh, ln.name)

\* Tensor.view(*shape), at most one entry of shape being -1
View(m, x, shape) ==
    LET numel == Prod(ShapeOf(m, x))
        holes == {i \in 1..Len(shape) : shape[i] = -1}
        known == Prod([i \in 1..Len(shape) |-> IF shape[i] = -1 THEN 1 ELSE shape[i]])
    IN  IF ~Ok(m) THEN m
        ELSE IF holes = {}
             THEN IF known = numel THEN ViewOf(m, "view", x, shape, "")
                  ELSE Raise(m, "RuntimeError")
        ELSE IF known = 0 THEN Raise(m, "RuntimeError")
        ELSE IF numel % known # 0 THEN Raise(m, "RuntimeError")
        ELSE ViewOf(m, "view", x,
                    [i \in 1..Len(shape) |-> IF shape[i] = -1 THEN numel \div known ELSE shape[i]],
                    "")

Permute(m, x, perm) ==
    IF ~Ok(m) THEN m
    ELSE IF Len(perm) # Len(ShapeOf(m, x)) THEN Raise(m, "RuntimeError")
    ELSE ViewOf(m, "permute", x, [i \in 1..Len(perm) |-> ShapeOf(m, x)[perm[i] + 1]], "")

Contiguous(m, x) ==
    IF ~Ok(m) THEN m ELSE Alloc(m, "contiguous", <<x>>, ShapeOf(m, x), "")

Unsqueeze(m, x, dim) ==
    LET sh == ShapeOf(m, x)
    IN  IF ~Ok(m) THEN m
        ELSE IF dim > Len(sh) THEN Raise(m, "IndexError")
        ELSE ViewOf(m, "unsqueeze", x,
                    SubSeq(sh, 1, dim) \o <<1>> \o SubSeq(sh, dim + 1, Len(sh)), "")

\* x[:, idx]: drops axis 1
Select1(m, x, idx) ==
    LET sh == ShapeOf(m, x)
    IN  IF ~Ok(m) THEN m
        ELSE IF Len(sh) < 2 \/ idx >= sh[2] THEN Raise(m, "IndexError")
        ELSE ViewOf(m, "select", x, <<sh[1]>> \o SubSeq(sh, 3, Len(sh)), ToString(idx))

\* x[:, :-n, :] of a 3-axis tensor.  Python's stop index -n is 0 when n = 0.
CutRows(m, x, n) ==
    LET sh == ShapeOf(m, x)
        stop == IF n = 0 THEN 0 ELSE Max(0, sh[2] - n)
    IN  IF ~Ok(m) THEN m
        ELSE IF Len(sh) # 3 THEN Raise(m, "IndexError")
        ELSE ViewOf(m, "slice", x, <<sh[1], Min(stop, sh[2]), sh[3]>>, "")

\* torch.split(x, sizes, -1): one view per section, in order
RECURSIVE SplitViews(_, _, _)
SplitViews(m, x, sizes) ==
    IF sizes = <<>> THEN m
    ELSE SplitViews(ViewOf(m, "split", x, ReplaceLast(ShapeOf(m, x), Head(sizes)), ""),
                    x, Tail(sizes))

Split(m, x, sizes) ==
    IF ~Ok(m) THEN m
    ELSE IF Len(ShapeOf(m, x)) = 0 \/ Sum(sizes) # Last(ShapeOf(m, x))
         THEN Raise(m, "RuntimeError")
    ELSE SplitViews(m, x, sizes)

\* torch.split(x, split_size, dim=2) of a 3-axis tensor: chunks of split_size
RECURSIVE ChunkSizes(_, _)
ChunkSizes(total, size) ==
    IF total <= size THEN <<total>> ELSE <<size>> \o ChunkSizes(total - size, size)

\* result shape of an elementwise operation of a and b (broadcasting)
PadLeft(sh, k) == [i \in 1..(k - Len(sh)) |-> 1] \o sh

Broadcastable(a, b) ==
    LET k == Max(Len(a), Len(b))
    IN  \A i \in 1..k : PadLeft(a, k)[i] = PadLeft(b, k)[i]
                        \/ PadLeft(a, k)[i] = 1 \/ PadLeft(b, k)[i] = 1

BroadcastShape(a, b) ==
    LET k == Max(Len(a), Len(b))
    IN  [i \in 1..k |-> IF PadLeft(a, k)[i] = 1 THEN PadLeft(b, k)[i] ELSE PadLeft(a, k)[i]]

Binary(m, op, a, b) ==
    IF ~Ok(m) THEN m
    ELSE IF ~Broadcastable(ShapeOf(m, a), ShapeOf(m, b)) THEN Raise(m, "RuntimeError")
    ELSE Alloc(m, op, <<a, b>>, BroadcastShape(ShapeOf(m, a), ShapeOf(m, b)), "")

Add(m, a, b) == Binary(m, "add", a, b)

Mul(m, a, b) == Binary(m, "mul", a, b)

\* a += b: the result keeps a's shape and storage
IAdd(m, a, b) ==
    IF ~Ok(m) THEN m
    ELSE IF ~Broadcastable(ShapeOf(m, a), ShapeOf(m, b))
            \/ BroadcastShape(ShapeOf(m, a), ShapeOf(m, b)) # ShapeOf(m, a)
         THEN Raise(m, "RuntimeError")
    ELSE InPlace(m, "add_", a, <<b>>, "")

\* a *= scalar
IMulScalar(m, a, scalar) ==
    IF ~Ok(m) THEN m ELSE InPlace(m, "mul_", a, <<>>, scalar)

\* x + p for a scalar parameter p
AddParam(m, x, p) ==
    IF ~Ok(m) THEN m ELSE Alloc(m, "add", <<x>>, ShapeOf(m, x), p)

Unary(m, op, x) ==
    IF ~Ok(m) THEN m ELSE Alloc(m, op, <<x>>, ShapeOf(m, x), "")

Tanh(m, x) == Unary(m, "tanh", x)

Sigmoid(m, x) == Unary(m, "sigmoid", x)

Relu(m, x) == Unary(m, "relu", x)

Softmax(m, x) == Unary(m, "softmax", x)

\* torch.matmul of two tensors of the same rank >= 2 (batched)
Matmul(m, a, b) ==
    LET sa == ShapeOf(m, a)
        sb == ShapeOf(m, b)
        r == Len(sa)
    IN  IF ~Ok(m) THEN m
        ELSE IF r < 2 \/ Len(sb) # r \/ SubSeq(sa, 1, r - 2) # SubSeq(sb, 1, r - 2)
                \/ sa[r] # sb[r - 1]
             THEN Raise(m, "RuntimeError")
        ELSE Alloc(m, "matmul", <<a, b>>, SubSeq(sa, 1, r - 1) \o <<sb[r]>>, "")

\* torch.cat(xs, dim=1) of tensors of rank >= 2: all axes but axis 1 must agree
Cat1(m, xs) ==
    LET sh(i) == ShapeOf(m, xs[i])
        drop1(s) == <<s[1]>> \o SubSeq(s, 3, Len(s))
    IN  IF ~Ok(m) THEN m
        ELSE IF xs = <<>> THEN Raise(m, "RuntimeError")
        ELSE IF \E i \in 1..Len(xs) : Len(sh(i)) < 2 THEN Raise(m, "IndexError")
        ELSE IF \E i \in 1..Len(xs) : drop1(sh(i)) # drop1(sh(1)) THEN Raise(m, "RuntimeError")
        ELSE Alloc(m, "cat", xs,
                   <<sh(1)[1], Sum([i \in 1..Len(xs) |-> sh(i)[2]])>> \o SubSeq(sh(1), 3, Len(sh(1))),
                   "")

\* shape[i] as Python reads it (i from 0); 0 when the tensor has no such axis
Dim(m, x, i) ==
    IF x \in 1..Len(m.tape) /\ i + 1 <= Len(m.tape[x].shape) THEN m.tape[x].shape[i + 1] ELSE 0

Rank(m, x) == IF x \in 1..Len(m.tape) THEN Len(m.tape[x].shape) ELSE 0

\* Sequencing: the value of `e` is computed once and handed to `F` (one Python
\* statement whose result the following statements read).
Then(e, F(_)) == CHOOSE r \in {F(v) : v \in {e}} : TRUE

(***************************************************************************)
(* RelationalMemory.multihead_attention                                    *)
(***************************************************************************)
multihead_attention(s, m, memory) ==
    Then(Linear(m, s.qkv_projector, memory), LAMBDA m1 :
    Then(LayerNorm(m1, s.qkv_layernorm, Top(m1)), LAMBDA m2 :
    Then(View(m2, Top(m2), <<Dim(m2, Top(m2), 0), Dim(m, memory, 1), s.num_heads, s.qkv_size>>),
         LAMBDA m3 :
    Then(Permute(m3, Top(m3), <<0, 2, 1, 3>>), LAMBDA m4 :
    Then(Split(m4, Top(m4), <<s.key_size, s.key_size, s.value_size>>), LAMBDA m5 :
    \* q, k, v are the nodes Top(m5) - 2, Top(m5) - 1, Top(m5)
    Then(IMulScalar(m5, Top(m5) - 2, "key_size ** -0.5"), LAMBDA m6 :
    Then(Permute(m6, Top(m5) - 1, <<0, 1, 3, 2>>), LAMBDA m7 :
    Then(Matmul(m7, Top(m6), Top(m7)), LAMBDA m8 :
    Then(Softmax(m8, Top(m8)), LAMBDA m9 :
    Then(Matmul(m9, Top(m9), Top(m5)), LAMBDA m10 :
    Then(Permute(m10, Top(m10), <<0, 2, 1, 3>>), LAMBDA m11 :
    Then(Contiguous(m11, Top(m11)), LAMBDA m12 :
    Then(View(m12, Top(m12), <<Dim(m12, Top(m12), 0), Dim(m12, Top(m12), 1), -1>>),
         LAMBDA m13 :
    [m |-> m13, t |-> Top(m13)])))))))))))))

(***************************************************************************)
(* RelationalMemory.create_gates                                           *)
(***************************************************************************)
SeqLenError == "ValueError: input seq length is larger than 1"

RankError == "ValueError: input shape of create_gate function is 2, expects 3"

UnpackError == "ValueError: not enough values to unpack"

\* faulty variant: every sequence length but 1 is rejected
seq_len_rejected_unless_one(n) == n # 1

seq_len_rejected(n) == n > 1

\* torch.split(gates, int(gates.shape[2] / 2), dim=2) and its unpacking into
\* input_gate, forget_gate
split_gates(m, gates) ==
    LET total == Dim(m, gates, 2)
        size == total \div 2
        chunks == IF size = 0 THEN <<total>> ELSE ChunkSizes(total, size)
    IN  IF ~Ok(m) THEN m
        ELSE IF Len(chunks) # 2 THEN Raise(m, UnpackError)
        ELSE SplitViews(m, gates, chunks)

NoGates(m) == [m |-> m, input_gate |-> 0, forget_gate |-> 0]

\* the branch taken for a 3-axis input of sequence length <= 1
gates_of(s, m1, inputs) ==
    \* Top(m1) is tanh(memory)
    Then(View(m1, inputs, <<Dim(m1, inputs, 0), -1>>), LAMBDA m2 :
    Then(Linear(m2, s.input_gate_projector, Top(m2)), LAMBDA m3 :
    Then(Unsqueeze(m3, Top(m3), 1), LAMBDA m4 :
    Then(Linear(m4, s.memory_gate_projector, Top(m1)), LAMBDA m5 :
    Then(Add(m5, Top(m5), Top(m4)), LAMBDA m6 :
    Then(split_gates(m6, Top(m6)), LAMBDA m7 :
    \* input_gate, forget_gate are the nodes Top(m7) - 1, Top(m7)
    Then(AddParam(m7, Top(m7) - 1, "input_bias"), LAMBDA m8 :
    Then(Sigmoid(m8, Top(m8)), LAMBDA m9 :
    Then(AddParam(m9, Top(m7), "forget_bias"), LAMBDA m10 :
    Then(Sigmoid(m10, Top(m10)), LAMBDA m11 :
    IF Ok(m11) THEN [m |-> m11, input_gate |-> Top(m9), forget_gate |-> Top(m11)]
    ELSE NoGates(m11)))))))))))

create_gates(s, m, inputs, memory) ==
    Then(Tanh(m, memory), LAMBDA m1 :
    IF ~Ok(m1) THEN NoGates(m1)
    ELSE IF Rank(m1, inputs) = 3
    THEN IF seq_len_rejected(Dim(m1, inputs, 1)) THEN NoGates(Raise(m1, SeqLenError))
         ELSE gates_of(s, m1, inputs)
    ELSE NoGates(Raise(m1, RankError)))

(***************************************************************************)
(* RelationalMemory.attend_over_memory                                     *)
(***************************************************************************)
\* faulty variant: no ReLU after the last layer
mlp_layer_relu_between(s, m, i, x) ==
    Then(Linear(m, s.attention_mlp[i], x), LAMBDA m1 :
         IF i < Len(s.attention_mlp) THEN Relu(m1, Top(m1)) ELSE m1)

\* one pass of `for i, l in enumerate(self.attention_mlp)`: layer i, then ReLU
mlp_layer(s, m, i, x) ==
    Then(Linear(m, s.attention_mlp[i], x), LAMBDA m1 : Relu(m1, Top(m1)))

RECURSIVE mlp_loop(_, _, _, _)
mlp_loop(s, m, i, x) ==
    IF i > Len(s.attention_mlp) THEN [m |-> m, t |-> x]
    ELSE Then(mlp_layer(s, m, i, x), LAMBDA m1 : mlp_loop(s, m1, i + 1, Top(m1)))

attention_block(s, m, memory) ==
    Then(multihead_attention(s, m, memory), LAMBDA a :
    Then(Add(a.m, memory, a.t), LAMBDA m1 :
    Then(LayerNorm(m1, s.attended_memory_layernorm, Top(m1)), LAMBDA m2 :
    \* Top(m2) is `memory` from here on
    Then(mlp_loop(s, m2, 1, Top(m2)), LAMBDA mlp :
    Then(Add(mlp.m, Top(m2), mlp.t), LAMBDA m3 :
    Then(LayerNorm(m3, s.attended_memory_layernorm2, Top(m3)), LAMBDA m4 :
    [m |-> m4, t |-> Top(m4)]))))))

RECURSIVE block_loop(_, _, _, _)
block_loop(s, m, k, memory) ==
    IF k >= s.num_blocks \/ ~Ok(m) THEN [m |-> m, t |-> memory]
    ELSE Then(attention_block(s, m, memory), LAMBDA b : block_loop(s, b.m, k + 1, b.t))

attend_over_memory(s, m, memory) == block_loop(s, m, 0, memory)

(***************************************************************************)
(* RelationalMemory.forward_step                                           *)
(***************************************************************************)
Gated(s) == s.gate_style = "unit" \/ s.gate_style = "memory"

\* faulty variant: the gates are computed from the attended memory
gate_memory_arg_attended(memory, next_memory) == next_memory

\* the memory create_gates is given: the memory forward_step received
gate_memory_arg(memory, next_memory) == memory

\* faulty variant: forget_gate * memory is computed in place, in the caller's memory
blend_in_place(m, input_gate, forget_gate, next_memory, memory) ==
    Then(Tanh(m, next_memory), LAMBDA m1 :
    Then(Mul(m1, input_gate, Top(m1)), LAMBDA m2 :
    Then(IF Ok(m2) THEN InPlace(m2, "mul_", memory, <<forget_gate>>, "") ELSE m2, LAMBDA m3 :
    IAdd(m3, Top(m2), Top(m3)))))

\* equation 7: next_memory = input_gate * tanh(next_memory)
\*             next_memory += forget_gate * memory
blend(m, input_gate, forget_gate, next_memory, memory) ==
    Then(Tanh(m, next_memory), LAMBDA m1 :
    Then(Mul(m1, input_gate, Top(m1)), LAMBDA m2 :
    Then(Mul(m2, forget_gate, memory), LAMBDA m3 :
    IAdd(m3, Top(m2), Top(m3)))))

\* the projection of the input: inputs_reshape is the top node
project_input(s, m, inputs, treat_input_as_matrix) ==
    IF treat_input_as_matrix
    THEN IF Rank(m, inputs) < 2 THEN Raise(m, "IndexError")
         ELSE Then(View(m, inputs, <<Dim(m, inputs, 0), Dim(m, inputs, 1), -1>>), LAMBDA m1 :
              Linear(m1, s.input_projector, Top(m1)))
    ELSE Then(View(m, inputs, <<Dim(m, inputs, 0), -1>>), LAMBDA m1 :
         Then(Linear(m1, s.input_projector, Top(m1)), LAMBDA m2 :
         Unsqueeze(m2, Top(m2), 1)))

\* the gating branch and the flattening of the result
finish_step(s, m5, inputs_reshape, memory, memory_plus_input) ==
    \* Top(m5) is next_memory, cut back to the memory slots
    IF Gated(s)
    THEN Then(create_gates(s, m5, inputs_reshape, gate_memory_arg(memory, Top(m5))), LAMBDA g :
         Then(blend(g.m, g.input_gate, g.forget_gate, Top(m5), memory), LAMBDA m6 :
         Then(View(m6, Top(m6), <<Dim(m6, Top(m6), 0), -1>>), LAMBDA m7 :
         [m |-> m7, output |-> Top(m7), next_memory |-> Top(m6),
          memory_plus_input |-> memory_plus_input])))
    ELSE Then(View(m5, Top(m5), <<Dim(m5, Top(m5), 0), -1>>), LAMBDA m7 :
         [m |-> m7, output |-> Top(m7), next_memory |-> Top(m5),
          memory_plus_input |-> memory_plus_input])

forward_step(s, m, inputs, memory, treat_input_as_matrix) ==
    Then(project_input(s, m, inputs, treat_input_as_matrix), LAMBDA m3 :
    \* Top(m3) is inputs_reshape
    Then(Cat1(m3, <<memory, Top(m3)>>), LAMBDA m4 :
    Then(attend_over_memory(s, m4, Top(m4)), LAMBDA att :
    Then(CutRows(att.m, att.t, Dim(m3, Top(m3), 1)), LAMBDA m5 :
    finish_step(s, m5, Top(m3), memory, IF Ok(m4) THEN Top(m4) ELSE 0)))))

(***************************************************************************)
(* RelationalMemory.forward                                                *)
(***************************************************************************)
\* faulty variant: forward hands its flag to forward_step
step_flag_passed(treat_input_as_matrix) == treat_input_as_matrix

\* forward calls self.forward_step(inputs[:, idx_step], memory): the flag is not passed on
step_flag(treat_input_as_matrix) == FALSE

\* faulty variant: the memory is not rebound, every step gets the memory forward received
carried_memory_stale(memory, step) == memory

\* `logit, memory = self.forward_step(...)`: the memory the next step receives
carried_memory(memory, step) == step.next_memory

\* faulty variant: the stacked logits are returned whatever return_all_outputs says
forward_return_stacked(s, m, logits, logit) == [m |-> m, t |-> logits]

\* what forward returns as its outputs: the stacked logits, or the last logit alone
forward_return(s, m, logits, logit) ==
    IF s.return_all_outputs THEN [m |-> m, t |-> logits]
    ELSE Then(Unsqueeze(m, logit, 1), LAMBDA m1 : [m |-> m1, t |-> Top(m1)])

CallRecord(idx_step, inputs, memory, flag, st) ==
    [idx_step |-> idx_step, inputs |-> inputs, memory |-> memory,
     treat_input_as_matrix |-> flag, ok |-> Ok(st.m), output |-> st.output,
     next_memory |-> st.next_memory]

\* the loop over sequence positions; `calls` logs each forward_step call
RECURSIVE forward_loop(_, _, _, _, _, _, _, _, _)
forward_loop(s, m, inputs, tim, idx_step, memory, logit, logits, calls) ==
    IF idx_step >= Dim(m, inputs, 1) \/ ~Ok(m)
    THEN [m |-> m, memory |-> memory, logit |-> logit, logits |-> logits, calls |-> calls]
    ELSE Then(Select1(m, inputs, idx_step), LAMBDA m1 :
         Then(forward_step(s, m1, Top(m1), memory, step_flag(tim)), LAMBDA st :
         Then(Unsqueeze(st.m, st.output, 1), LAMBDA m2 :
         forward_loop(s, m2, inputs, tim, idx_step + 1, carried_memory(memory, st),
                      st.output, Append(logits, Top(m2)),
                      Append(calls, CallRecord(idx_step, Top(m1), memory, step_flag(tim), st))))))

forward(s, m, inputs, memory, treat_input_as_matrix) ==
    IF Rank(m, inputs) < 2
    THEN [m |-> Raise(m, "IndexError"), outputs |-> 0, memory |-> memory, calls |-> <<>>]
    ELSE Then(forward_loop(s, m, inputs, treat_input_as_matrix, 0, memory, 0, <<>>, <<>>),
              LAMBDA l :
         Then(Cat1(l.m, l.logits), LAMBDA m1 :
         Then(forward_return(s, m1, Top(m1), l.logit), LAMBDA r :
         [m |-> r.m, outputs |-> r.t, memory |-> l.memory, calls |-> l.calls])))

(***************************************************************************)
(* The caller: it constructs one object, then calls its methods one at a   *)
(* time, each call on tensors it owns (node 1 the input, node 2 the        *)
(* memory), and drops the results before the next call.                    *)
(***************************************************************************)
InputSize == 3

Batches == {MaxBatch}

ConstructorArgs ==
    [mem_slots : 1..MaxSlots, head_size : 1..MaxHeadSize, num_heads : {1, MaxHeads},
     input_size : {InputSize}, num_blocks : 0..MaxBlocks,
     gate_style : GateStyles \cup {"slot"}, attention_mlp_layers : 0..MaxLayers,
     key_size : {0}, return_all_outputs : BOOLEAN]

NoCall == [op |-> "none"]

Idle == [op |-> "idle"]

NoRet == [err |-> "none"]

Init ==
    /\ self = NoObject
    /\ call = NoCall
    /\ tape = <<>>
    /\ ret = NoRet

Construct(a) ==
    /\ call = NoCall
    /\ \E r \in {init_(a)} :
           /\ self' = r.obj
           /\ ret' = [err |-> r.err]
    /\ call' = [op |-> "__init__", args |-> a]
    /\ tape' = <<>>

Callable == self.constructed /\ call = Idle

Discard ==
    /\ self.constructed
    /\ call # Idle
    /\ call' = Idle
    /\ tape' = <<>>
    /\ ret' = NoRet
    /\ UNCHANGED self

DoInitialState(batch_size) ==
    /\ Callable
    /\ call' = [op |-> "initial_state", batch_size |-> batch_size]
    /\ ret' = [err |-> "none", init_state |-> initial_state(self, batch_size)]
    /\ tape' = <<>>
    /\ UNCHANGED self

\* the caller's tensors: the input of the given shape, and a memory [batch, rows, mem_size]
Caller(input_shape, batch, rows) ==
    Then(Given(NoTape, "inputs", input_shape), LAMBDA m1 :
         Given(m1, "memory", <<batch, rows, self.mem_size>>))

DoAttendOverMemory(batch, rows) ==
    /\ Callable
    /\ \E r \in {attend_over_memory(self, Caller(<<>>, batch, rows), 2)} :
           /\ tape' = r.m.tape
           /\ ret' = [err |-> r.m.err, memory |-> r.t]
    /\ call' = [op |-> "attend_over_memory", memory |-> 2]
    /\ UNCHANGED self

DoCreateGates(input_shape) ==
    /\ Callable
    /\ \E r \in {create_gates(self, Caller(input_shape, input_shape[1], self.mem_slots), 1, 2)} :
           /\ tape' = r.m.tape
           /\ ret' = [err |-> r.m.err, input_gate |-> r.input_gate,
                      forget_gate |-> r.forget_gate]
    /\ call' = [op |-> "create_gates", inputs |-> 1, memory |-> 2]
    /\ UNCHANGED self

DoForwardStep(input_shape, treat_input_as_matrix) ==
    /\ Callable
    /\ \E r \in {forward_step(self, Caller(input_shape, input_shape[1], self.mem_slots),
                                1, 2, treat_input_as_matrix)} :
           /\ tape' = r.m.tape
           /\ ret' = [err |-> r.m.err, output |-> r.output, next_memory |-> r.next_memory,
                      memory_plus_input |-> r.memory_plus_input]
    /\ call' = [op |-> "forward_step", inputs |-> 1, memory |-> 2,
                treat_input_as_matrix |-> treat_input_as_matrix]
    /\ UNCHANGED self

DoForward(input_shape, treat_input_as_matrix) ==
    /\ Callable
    /\ \E r \in {forward(self, Caller(input_shape, input_shape[1], self.mem_slots),
                           1, 2, treat_input_as_matrix)} :
           /\ tape' = r.m.tape
           /\ ret' = [err |-> r.m.err, outputs |-> r.outputs, memory |-> r.memory,
                      calls |-> r.calls]
    /\ call' = [op |-> "forward", inputs |-> 1, memory |-> 2,
                treat_input_as_matrix |-> treat_input_as_matrix]
    /\ UNCHANGED self

\* input shapes the caller tries
GateInputShapes ==
    IF ~self.constructed THEN {}
    ELSE {<<b, self.mem_size>> : b \in Batches}
         \cup {<<b, n, self.mem_size>> : b \in Batches, n \in 0..(MaxRows + 1)}
         \cup {<<b, 1, 1, self.mem_size>> : b \in Batches}

StepInputShapes ==
    IF ~self.constructed THEN {}
    ELSE {<<b, self.input_size>> : b \in Batches}
         \cup {<<b, n, self.input_size>> : b \in Batches, n \in 0..MaxRows}

SequenceShapes ==
    IF ~self.constructed THEN {}
    ELSE {<<b, T, self.input_size>> : b \in Batches, T \in 0..MaxSeqLen}

MemoryRows == IF ~self.constructed THEN {} ELSE {self.mem_slots + r : r \in 1..MaxRows}

Next ==
    \/ \E a \in ConstructorArgs : Construct(a)
    \/ \E b \in 1..MaxBatch : DoInitialState(b)
    \/ \E b \in Batches, rows \in MemoryRows : DoAttendOverMemory(b, rows)
    \/ \E sh \in GateInputShapes : DoCreateGates(sh)
    \/ \E sh \in StepInputShapes, t \in BOOLEAN : DoForwardStep(sh, t)
    \/ \E sh \in SequenceShapes, t \in BOOLEAN : DoForward(sh, t)
    \/ Discard

Spec == Init /\ [][Next]_vars

(***************************************************************************)
(* Properties.                                                             *)
(***************************************************************************)
ConfigErrors == {NumBlocksError, GateStyleError, MlpLayersError}

\* C1: constructing RelationalMemory raises a configuration error (ValueError)
\* exactly when num_blocks < 1, or gate_style is none of 'unit', 'memory', None,
\* or attention_mlp_layers < 1; otherwise no error is raised and the object
\* stores num_blocks, gate_style and attention_mlp_layers as they were given.
C1_ConstructionValidates ==
    call.op = "__init__" =>
        LET a == call.args
            invalid == \/ a.num_blocks < 1
                       \/ a.gate_style \notin {"unit", "memory", "None"}
                       \/ a.attention_mlp_layers < 1
        IN  /\ invalid => ret.err \in ConfigErrors /\ ~self.constructed
            /\ ~invalid => /\ ret.err = "none"
                           /\ self.constructed
                           /\ self.num_blocks = a.num_blocks
                           /\ self.gate_style = a.gate_style
                           /\ self.attention_mlp_layers = a.attention_mlp_layers

\* a construction with num_blocks = 0 and everything else valid, rejected
C1_Witness ==
    /\ call.op = "__init__"
    /\ call.args.num_blocks = 0
    /\ call.args.gate_style = "unit"
    /\ call.args.attention_mlp_layers = 2
    /\ ret.err = NumBlocksError

\* C2: initial_state(B) returns B identical matrices of mem_slots rows and
\* mem_size columns whose entry (i, j) is 1 when i = j and 0 otherwise (the
\* identity padded with zero columns, or cut to its first mem_size columns).
C2_InitialStateIdentity ==
    call.op = "initial_state" =>
        /\ ret.err = "none"
        /\ Len(ret.init_state) = call.batch_size
        /\ \A b \in 1..call.batch_size :
               /\ Len(ret.init_state[b]) = self.mem_slots
               /\ \A i \in 1..self.mem_slots :
                      /\ Len(ret.init_state[b][i]) = self.mem_size
                      /\ \A j \in 1..self.mem_size :
                             ret.init_state[b][i][j] = IF i = j THEN 1 ELSE 0
        /\ \A b, c \in 1..call.batch_size : ret.init_state[b] = ret.init_state[c]

\* a batch of at least two matrices that had to be cut (mem_size < mem_slots)
C2_Witness ==
    /\ call.op = "initial_state"
    /\ call.batch_size >= 2
    /\ self.mem_size < self.mem_slots
    /\ Len(ret.init_state) = call.batch_size

(***************************************************************************)
(* Reading a finished call: the caller's tensors are nodes 1 (inputs) and  *)
(* 2 (memory) of its tape.                                                 *)
(***************************************************************************)
InputShape == tape[1].shape

Batch == tape[1].shape[1]

\* RelationalMemory.output_size
output_size(s) == s.mem_slots * s.mem_size

OutputWidth == output_size(self)

IsNode(i, op, args, par) ==
    /\ i \in 1..Len(tape)
    /\ tape[i].op = op
    /\ tape[i].args = args
    /\ tape[i].par = par

\* the same call on the same tensors, with another flag or another object
Again(s, treat_input_as_matrix) ==
    forward(s, Caller(InputShape, Batch, self.mem_slots), 1, 2, treat_input_as_matrix)

SamePrefix(other, k) == SubSeq(other, 1, k) = SubSeq(tape, 1, k)

\* C3: for a sequence of length T >= 1 forward returns, when return_all_outputs
\* is set, the T step outputs stacked on axis 1 in step order (shape
\* [batch, T, mem_slots*mem_size]); otherwise one output (shape
\* [batch, 1, mem_slots*mem_size]), the output of the last step, equal to the
\* T-th output of the return-all configuration.
C3_ForwardOutputs ==
    (call.op = "forward" /\ InputShape[2] >= 1) =>
        LET T == InputShape[2]
            out == ret.outputs
        IN  /\ ret.err = "none"
            /\ Len(ret.calls) = T
            /\ \A t \in 1..T : ret.calls[t].ok /\ ret.calls[t].idx_step = t - 1
            /\ out \in 1..Len(tape)
            /\ IF self.return_all_outputs
               THEN /\ tape[out].op = "cat"
                    /\ tape[out].shape = <<Batch, T, OutputWidth>>
                    /\ Len(tape[out].args) = T
                    /\ \A t \in 1..T :
                           /\ IsNode(tape[out].args[t], "unsqueeze", <<ret.calls[t].output>>, "")
                           /\ tape[tape[out].args[t]].shape = <<Batch, 1, OutputWidth>>
               ELSE /\ IsNode(out, "unsqueeze", <<ret.calls[T].output>>, "")
                    /\ tape[out].shape = <<Batch, 1, OutputWidth>>
                    /\ \E all \in {Again([self EXCEPT !.return_all_outputs = TRUE],
                                         call.treat_input_as_matrix)} :
                           /\ all.m.err = "none"
                           /\ SamePrefix(all.m.tape, ret.calls[T].output)
                           /\ all.m.tape[all.m.tape[all.outputs].args[T]] = tape[out]

\* a sequence of two or more steps of which only the last output is returned
C3_Witness ==
    /\ call.op = "forward"
    /\ InputShape[2] >= 2
    /\ ~self.return_all_outputs
    /\ ret.err = "none"
    /\ tape[ret.outputs].shape = <<Batch, 1, OutputWidth>>

\* the number of forward_step executions on the tape: each projects its input once
StepsOnTape == Cardinality({i \in 1..Len(tape) : tape[i].par = "input_projector"})

\* C4: forward invokes forward_step exactly once per sequence position, in
\* increasing position order; the first call receives the caller's memory, each
\* later call the next_memory of the call before it; forward returns the
\* next_memory of the last call, whether return_all_outputs is set or not.
C4_ForwardThreadsMemory ==
    (call.op = "forward" /\ ret.err = "none") =>
        LET T == InputShape[2]
            c == ret.calls
        IN  /\ Len(c) = T
            /\ StepsOnTape = T
            /\ \A t \in 1..T :
                   /\ c[t].idx_step = t - 1
                   /\ IsNode(c[t].inputs, "select", <<1>>, ToString(t - 1))
                   /\ c[t].memory = IF t = 1 THEN 2 ELSE c[t - 1].next_memory
                   /\ c[t].inputs < c[t].next_memory
                   /\ t > 1 => c[t - 1].output < c[t].inputs
            /\ ret.memory = c[T].next_memory
            /\ \E other \in {Again([self EXCEPT !.return_all_outputs = ~@],
                                   call.treat_input_as_matrix)} :
                   /\ other.m.err = "none"
                   /\ other.memory = ret.memory
                   /\ SamePrefix(other.m.tape, ret.memory)

\* a run of two or more steps, the second fed by the first
C4_Witness ==
    /\ call.op = "forward"
    /\ ret.err = "none"
    /\ Len(ret.calls) >= 2
    /\ ret.calls[2].memory = ret.calls[1].next_memory
    /\ ret.calls[2].memory # 2

\* C10: forward's result does not depend on its treat_input_as_matrix
\* argument: with True it returns the same outputs and final memory as with
\* False, every step being run in flat-vector mode.
C10_ForwardIgnoresMatrixFlag ==
    call.op = "forward" =>
        /\ \A t \in 1..Len(ret.calls) : ret.calls[t].treat_input_as_matrix = FALSE
        /\ \E other \in {Again(self, ~call.treat_input_as_matrix)} :
               /\ other.m.err = ret.err
               /\ other.m.tape = tape
               /\ other.outputs = ret.outputs
               /\ other.memory = ret.memory

\* forward called with treat_input_as_matrix = True, over two or more steps
C10_Witness ==
    /\ call.op = "forward"
    /\ call.treat_input_as_matrix
    /\ ret.err = "none"
    /\ Len(ret.calls) >= 2

(***************************************************************************)
(* forward_step and create_gates on the tape.                              *)
(***************************************************************************)
Nodes == 1..Len(tape)

A1(i) == tape[i].args[1]

A2(i) == tape[i].args[2]

\* the node that cuts the appended rows off, and the last normalisation before it
CutNode == CHOOSE i \in Nodes : tape[i].op = "slice"

LastNorm2 ==
    CHOOSE i \in Nodes :
        /\ tape[i].par = "attended_memory_layernorm2"
        /\ \A j \in Nodes : tape[j].par = "attended_memory_layernorm2" => j <= i

\* gate is sigmoid(section + bias), section being section number k of
\* projection(tanh(memory)) + unsqueeze(projection(view(inputs)))
IsGate(gate, bias, k, memory, inputs) ==
    /\ IsNode(gate, "sigmoid", <<A1(gate)>>, "")
    /\ IsNode(A1(gate), "add", <<A1(A1(gate))>>, bias)
    /\ LET section == A1(A1(gate))
           sum == A1(section)
       IN  /\ IsNode(section, "split", <<sum>>, "")
           /\ Cardinality({j \in Nodes : j <= section /\ tape[j].op = "split"
                                         /\ tape[j].args = <<sum>>}) = k
           /\ tape[sum].op = "add" /\ tape[sum].par = "" /\ Len(tape[sum].args) = 2
           /\ IsNode(A1(sum), "linear", <<A1(A1(sum))>>, "memory_gate_projector")
           /\ IsNode(A1(A1(sum)), "tanh", <<memory>>, "")
           /\ IsNode(A2(sum), "unsqueeze", <<A1(A2(sum))>>, "")
           /\ IsNode(A1(A2(sum)), "linear", <<A1(A1(A2(sum)))>>, "input_gate_projector")
           /\ IsNode(A1(A1(A2(sum))), "view", <<inputs>>, "")

GateNodes ==
    {i \in Nodes : tape[i].op = "sigmoid"
                   \/ tape[i].par \in {"input_gate_projector", "memory_gate_projector"}}

\* C5: in forward_step, U being the attended AugmentedMemory with the appended
\* rows cut off and M the memory received: with gate_style 'unit' or 'memory'
\* the gates are computed from M and the projected input, and
\* next_memory = input_gate * tanh(U) + forget_gate * M; with gating disabled
\* no gate is computed and next_memory = U; the output is next_memory flattened
\* to [batch, mem_slots*mem_size].
C5_StepMemoryRule ==
    (call.op = "forward_step" /\ ret.err = "none") =>
        LET nm == ret.next_memory
            aug == ret.memory_plus_input
            U == CutNode
        IN  /\ aug \in Nodes /\ tape[aug].op = "cat" /\ Len(tape[aug].args) = 2
            /\ A1(aug) = 2
            /\ A2(aug) \in 3..(aug - 1)
            /\ IsNode(U, "slice", <<LastNorm2>>, "")
            /\ aug < LastNorm2
            /\ IF self.gate_style \in {"unit", "memory"}
               THEN /\ nm \in Nodes /\ tape[nm].op = "add_" /\ Len(tape[nm].args) = 2
                    /\ IsNode(A1(nm), "mul", <<A1(A1(nm)), A2(A1(nm))>>, "")
                    /\ IsNode(A2(A1(nm)), "tanh", <<U>>, "")
                    /\ IsNode(A2(nm), "mul", <<A1(A2(nm)), 2>>, "")
                    /\ IsGate(A1(A1(nm)), "input_bias", 1, 2, A2(aug))
                    /\ IsGate(A1(A2(nm)), "forget_bias", 2, 2, A2(aug))
                    /\ tape[A1(A1(nm))].shape
                           = <<Batch, self.mem_slots,
                               IF self.gate_style = "unit" THEN self.mem_size ELSE 1>>
               ELSE /\ nm = U
                    /\ GateNodes = {}
            /\ IsNode(ret.output, "view", <<nm>>, "")
            /\ tape[ret.output].shape = <<Batch, OutputWidth>>
            /\ tape[nm].shape = <<Batch, self.mem_slots, self.mem_size>>

\* a gated step that returned
C5_Witness ==
    /\ call.op = "forward_step"
    /\ ret.err = "none"
    /\ self.gate_style = "memory"
    /\ self.num_blocks >= 2
    /\ tape[ret.next_memory].op = "add_"

ShapeContractErrors == {SeqLenError, RankError}

\* C6 as stated: create_gates fails with a shape-contract error (ValueError)
\* for every input that is not of the form [batch, 1, feature] (another number
\* of axes, or a second axis of length 0, 2, 3, ...), returning no gates, and
\* raises no shape-contract error for [batch, 1, feature].
C6_Original ==
    call.op = "create_gates" =>
        LET one_step == Len(InputShape) = 3 /\ InputShape[2] = 1
        IN  /\ ~one_step => ret.err \in ShapeContractErrors /\ ret.input_gate = 0
            /\ one_step => ret.err \notin ShapeContractErrors

\* C6 amended: create_gates raises its shape-contract ValueError exactly when
\* the input has not 3 axes, or has 3 axes and a second axis longer than 1.
\* A 3-axis input whose second axis is 0 passes the check and the call fails
\* in the input gate projection with the tensor library's RuntimeError.  No
\* gates are returned by a call that fails.
C6_ShapeContract ==
    call.op = "create_gates" =>
        /\ ret.err = RankError <=> Len(InputShape) # 3
        /\ ret.err = SeqLenError <=> (Len(InputShape) = 3 /\ InputShape[2] > 1)
        /\ (Len(InputShape) = 3 /\ InputShape[2] = 0) => ret.err = "RuntimeError"
        /\ (Len(InputShape) = 3 /\ InputShape[2] = 1) => ret.err \notin ShapeContractErrors
        /\ ret.err # "none" => ret.input_gate = 0 /\ ret.forget_gate = 0

\* a 3-step-wide input, rejected
C6_Witness ==
    /\ call.op = "create_gates"
    /\ Len(InputShape) = 3
    /\ InputShape[2] = 3
    /\ ret.err = SeqLenError

\* no in-place operation of the call wrote into a tensor of the caller
NoCallerWrite == \A i \in Nodes : tape[i].op \in InPlaceOps => tape[i].base \notin {1, 2}

\* the caller's tensors are still the first two nodes, as given
CallerTensorsKept ==
    /\ Len(tape) >= 2
    /\ tape[1] = Node("given", <<>>, tape[1].shape, 1, "inputs")
    /\ tape[2] = Node("given", <<>>, <<Batch, self.mem_slots, self.mem_size>>, 2, "memory")

\* the memory a finished call returns lives in storage the call allocated
FreshMemory ==
    ret.err = "none" =>
        LET nm == IF call.op = "forward" THEN ret.memory ELSE ret.next_memory
        IN  nm \in Nodes /\ nm > 2 /\ tape[nm].base \notin {1, 2}

\* C7: a forward_step or forward call never writes into the memory (or input)
\* the caller passed, returns its next memory in new storage, and leaves the
\* RelationalMemory object as it was, so that the result of a call is
\* determined by the object's configuration and the call's arguments.
C7_CallerMemoryUntouched ==
    [][call'.op \in {"forward_step", "forward"} =>
           /\ self' = self
           /\ NoCallerWrite'
           /\ CallerTensorsKept'
           /\ FreshMemory']_vars

\* a gated step that updated a tensor in place and returned
C7_Witness ==
    /\ call.op = "forward_step"
    /\ ret.err = "none"
    /\ self.gate_style = "unit"
    /\ \E i \in Nodes : tape[i].op = "add_" /\ tape[i].base > 2
    /\ \E i \in Nodes : tape[i].op = "tanh" /\ tape[i].args = <<2>>

\* the rows of the projected input that forward_step appended
AppendedRows == tape[A2(ret.memory_plus_input)].shape[2]

\* C8 as stated: in every forward_step call, for either value of
\* treat_input_as_matrix and every input (a matrix-form input of n > 1 rows
\* included), the AugmentedMemory has exactly mem_slots + 1 rows and the memory
\* recovered after attention has exactly mem_slots rows.
C8_Original ==
    (call.op = "forward_step" /\ ret.memory_plus_input # 0) =>
        /\ tape[ret.memory_plus_input].shape[2] = self.mem_slots + 1
        /\ ret.err = "none" => tape[ret.next_memory].shape[2] = self.mem_slots

\* C8 amended: the AugmentedMemory forward_step builds has mem_slots + n rows,
\* n being the rows of the projected input: n = 1 in flat-vector mode and the
\* length of the input's time axis in matrix mode.  With n = 1 it has
\* mem_slots + 1 rows, the step returns and the recovered memory has mem_slots
\* rows.  With n > 1 the step stops at the first layer normalisation of the
\* attention (sized for mem_slots + 1 rows) with a RuntimeError.
C8_AugmentedRows ==
    (call.op = "forward_step" /\ ret.memory_plus_input # 0) =>
        LET aug == ret.memory_plus_input
            n == AppendedRows
        IN  /\ IsNode(aug, "cat", <<2, A2(aug)>>, "")
            /\ tape[aug].shape = <<Batch, self.mem_slots + n, self.mem_size>>
            /\ n = IF call.treat_input_as_matrix THEN InputShape[2] ELSE 1
            /\ n = 1 => /\ ret.err = "none"
                        /\ tape[aug].shape[2] = self.mem_slots + 1
                        /\ tape[ret.next_memory].shape[2] = self.mem_slots
            /\ n # 1 => /\ ret.err = "RuntimeError"
                        /\ IsNode(Len(tape), "linear", <<aug>>, "qkv_projector")

\* a matrix-form input of two rows: mem_slots + 2 rows, and the step fails
C8_Witness ==
    /\ call.op = "forward_step"
    /\ call.treat_input_as_matrix
    /\ ret.memory_plus_input # 0
    /\ AppendedRows = 2
    /\ tape[ret.memory_plus_input].shape[2] = self.mem_slots + 2
    /\ ret.err = "RuntimeError"

(***************************************************************************)
(* attend_over_memory on the tape: the call's operations start at node 3.  *)
(***************************************************************************)
\* the operations of one multihead_attention call, in order
AttentionOps ==
    <<"linear", "layer_norm", "view", "permute", "split", "split", "split", "mul_",
      "permute", "matmul", "softmax", "matmul", "permute", "contiguous", "view">>

\* block number k (from 1) of a trace of blocks of `len` nodes each starts after node Off
Off(k, len) == 2 + (k - 1) * len

\* block k reads x and is: attention of x; add(x, attention); first
\* normalisation; the MLP; add(normalised, MLP result); second normalisation
BlockShell(k, len, x, mlp_out) ==
    LET o == Off(k, len)
        att == Len(AttentionOps)
    IN  /\ \A i \in 1..att : tape[o + i].op = AttentionOps[i]
        /\ IsNode(o + 1, "linear", <<x>>, "qkv_projector")
        /\ IsNode(o + att + 1, "add", <<x, o + att>>, "")
        /\ IsNode(o + att + 2, "layer_norm", <<o + att + 1>>, "attended_memory_layernorm")
        /\ IsNode(o + len - 1, "add", <<o + att + 2, mlp_out>>, "")
        /\ IsNode(o + len, "layer_norm", <<o + len - 1>>, "attended_memory_layernorm2")

\* the MLP of block k starts after node p: L layers, each followed by ReLU
MlpReluAfterEach(p, L) ==
    \A j \in 1..L :
        /\ IsNode(p + 2 * j - 1, "linear", <<p + 2 * j - 2>>, "attention_mlp.0")
        /\ IsNode(p + 2 * j, "relu", <<p + 2 * j - 1>>, "")

\* the MLP of block k starts after node p: L layers, ReLU between consecutive layers only
MlpReluBetween(p, L) ==
    \A j \in 1..L :
        /\ IsNode(p + 2 * j - 1, "linear", <<p + 2 * j - 2>>, "attention_mlp.0")
        /\ j < L => IsNode(p + 2 * j, "relu", <<p + 2 * j - 1>>, "")

AttendReturned == call.op = "attend_over_memory" /\ ret.err = "none"

\* C9 as stated: attend_over_memory runs exactly num_blocks blocks, each:
\* attention, residual add to the block's input, first normalisation, the MLP
\* of attention_mlp_layers layers with ReLU between layers, residual add to the
\* MLP's input, second normalisation; each block reads the output of the block
\* before it; the result has the shape of the input.
C9_Original ==
    AttendReturned =>
        LET L == self.attention_mlp_layers
            len == Len(AttentionOps) + 2 + (2 * L - 1) + 2
        IN  /\ Len(tape) = 2 + self.num_blocks * len
            /\ \A k \in 1..self.num_blocks :
                   /\ BlockShell(k, len, IF k = 1 THEN 2 ELSE Off(k, len), Off(k, len) + len - 2)
                   /\ MlpReluBetween(Off(k, len) + Len(AttentionOps) + 2, L)
            /\ ret.memory = Len(tape)
            /\ tape[ret.memory].shape = tape[2].shape

\* C9 amended: as stated, except that ReLU is applied after every layer of the
\* MLP, the last one included, so that the MLP's result is the ReLU of its last
\* layer.
C9_BlockOrder ==
    AttendReturned =>
        LET L == self.attention_mlp_layers
            len == Len(AttentionOps) + 2 + 2 * L + 2
        IN  /\ Len(tape) = 2 + self.num_blocks * len
            /\ \A k \in 1..self.num_blocks :
                   /\ BlockShell(k, len, IF k = 1 THEN 2 ELSE Off(k, len), Off(k, len) + len - 2)
                   /\ MlpReluAfterEach(Off(k, len) + Len(AttentionOps) + 2, L)
            /\ ret.memory = Len(tape)
            /\ tape[ret.memory].shape = tape[2].shape

\* two blocks of a two-layer MLP, returned
C9_Witness ==
    /\ AttendReturned
    /\ self.num_blocks = 2
    /\ self.attention_mlp_layers = 2
    /\ Cardinality({i \in Nodes : tape[i].op = "relu"}) = 4

====
